---- MODULE Spec2Model ----
(***************************************************************************)
(* simple-web-asr (src/main.go): session login, e-mail confirmed accounts, *)
(* recording upload and ownership-scoped viewing.                          *)
(*                                                                         *)
(* The store (gorm) gives atomic single-row reads and writes; a handler    *)
(* that touches the store more than once is split at its store accesses,   *)
(* so that requests of different sessions interleave there.  Every session *)
(* (browser, cookie jar) has at most one request in flight.                *)
(***************************************************************************)
EXTENDS Integers, Sequences, FiniteSets, TLC

\* ---------------------------------------------------------------- bounds
MaxUsers == 2
MaxRecordings == 1

\* two browsers, each with its own session cookie
Sessions == {1, 2}

\* ------------------------------------------------------------ form inputs
\* e-mail form values; "" is a missing / empty field
Emails == {"", "a@x", "A@x"}
Passwords == {"p", "q"}
\* the (email, password) forms posted to /u/register: two spellings of one
\* address with different passwords, an empty address, a second address
Registrations == {<<"a@x", "p">>, <<"A@x", "q">>, <<"", "q">>, <<"b@x", "q">>}
\* the forms posted under SpecAccounts: the same without the second address
AccountForms == {<<"a@x", "p">>, <<"A@x", "q">>, <<"", "q">>}
Titles == {"", "t"}
\* original file names of the multipart file, as their path components
FileNames == {<<"..", "evil.wav">>}
\* original file names posted under SpecUploads: a bare name, a path that
\* climbs out of its directory, a path with a trailing separator
UploadNames ==
  {<<"speech.wav">>, <<"..", "..", "etc", "evil.wav">>, <<"dir", "">>}
\* the :token path parameter: 0 is any string that is no UUID, n > 0 a UUID
TokenParams == 0..MaxUsers
\* the :recording_id path parameter: 0 is any string ParseUint rejects
RecordingParams == 0..MaxRecordings

\* ------------------------------------------------------------ pure helpers
\* strings.ToLower on the e-mail form values
ToLower(e) == IF e = "A@x" THEN "a@x" ELSE e

\* bcrypt.GenerateFromPassword: a salted hash, never the password itself
hashPassword(password) == <<"$2a$14$", password>>

\* bcrypt.CompareHashAndPassword: nil iff the hash is one of this password;
\* the zero user's empty hash matches nothing
CompareHashAndPassword(hash, password) == hash = hashPassword(password)

\* uuid.Parse: err == nil
uuidParse(token) == token > 0

\* a path is the sequence of its elements between the separators "/":
\* "../evil.wav" is <<"..", "evil.wav">>, "dir/" is <<"dir", "">>, "/" is
\* <<"", "">> and the empty path is <<"">>
RECURSIVE TrimSlashes(_)
\* filepath.Base: the trailing separators are removed first
TrimSlashes(f) ==
  IF Len(f) > 0 /\ f[Len(f)] = ""
  THEN TrimSlashes(SubSeq(f, 1, Len(f) - 1))
  ELSE f

\* filepath.Base: the last element of the path; "." for the empty path and
\* "/" for a path of separators only
Base(f) ==
  LET g == TrimSlashes(f)
  IN  IF f \in {<<>>, <<"">>} THEN "."
      ELSE IF Len(g) = 0 THEN "/"
      ELSE g[Len(g)]

\* model.User{} and model.Recording{}: Go zero values (ID 0 is "no row")
ZeroUser == [ID |-> 0, Email |-> "", Password |-> <<>>, Token |-> 0, Status |-> 0]
ZeroRecording ==
  [ID |-> 0, UserID |-> 0, Title |-> "", Filename |-> "", Language |-> "", Status |-> 0]

\* the request a session has in flight, its gin.Context and its response:
\*   route         method and path pattern
\*   pc            position in the handler chain ("idle": no request)
\*   user_id       session.Get("user_id") of the request's cookie, 0 for nil
\*   is_logged_in  the context key set by setUserStatus
\*   email, password   the form fields posted to /u/login or /u/register
\*   param         the path parameter (:token, :recording_id)
\*   token, user   locals of sendConfirmation / performConfirmation
\*   r             the *model.Recording local of uploadRecording
\*   recording     the local of updateRecordingStatus
\*   aborted       c.AbortWithError / c.AbortWithStatus was called
\*   status        HTTP status of the response (the first one written)
\*   tmpl, msg     template rendered and its ErrorMessage
\*   payload       the recordings of the rendered payload
IdleRequest ==
  [route |-> "", pc |-> "idle", user_id |-> 0, is_logged_in |-> FALSE,
   email |-> "", password |-> "", param |-> 0,
   token |-> 0, user |-> ZeroUser, r |-> ZeroRecording,
   recording |-> ZeroRecording, aborted |-> FALSE,
   status |-> 0, tmpl |-> "", msg |-> "", payload |-> {}]

VARIABLES
  users,       \* table users, row i has primary key i
  recordings,  \* table recordings, row i has primary key i
  files,       \* ids n for which helper.RecordingFilename(n) exists on disk
  session,     \* session[s]: user_id in the cookie of session s, 0 if none
  req,         \* req[s]: the request of session s
  nextToken,   \* the next value of uuid.NewRandom
  mail,        \* confirmation messages dispatched
  confirmed,   \* tokens for which a confirmation request has succeeded
  response     \* the response sent last

vars ==
  <<users, recordings, files, session, req, nextToken, mail, confirmed, response>>

\* the response to request q of session s, as the client sees it
Response(s, q) ==
  [session |-> s, route |-> q.route, user_id |-> q.user_id,
   email |-> q.email, password |-> q.password, param |-> q.param,
   status |-> q.status, tmpl |-> q.tmpl, msg |-> q.msg, payload |-> q.payload]

Init ==
  /\ users = <<>>
  /\ recordings = <<>>
  /\ files = {}
  /\ session = [s \in Sessions |-> 0]
  /\ req = [s \in Sessions |-> IdleRequest]
  /\ nextToken = 1
  /\ mail = {}
  /\ confirmed = {}
  /\ response = Response(0, IdleRequest)

\* ------------------------------------------------------------- responses
StatusOK == 200
StatusTemporaryRedirect == 307
StatusBadRequest == 400
StatusUnauthorized == 401
StatusNotFound == 404

\* the status line goes out once: a later WriteHeader does not change it
WriteHeader(q, code) == IF q.status = 0 THEN code ELSE q.status

\* the handler chain of request q has returned: the response is sent
Return(s, q) ==
  /\ req' = [req EXCEPT ![s] = IdleRequest]
  /\ response' = Response(s, q)

\* request q stands before its next store access
Continue(s, q) ==
  /\ req' = [req EXCEPT ![s] = q]
  /\ response' = response

\* c.AbortWithStatus / c.AbortWithError: writes the status and prevents the
\* pending handlers of the chain from running; the calling function goes on
AbortWithStatus(q, code) ==
  [q EXCEPT !.aborted = TRUE, !.status = WriteHeader(q, code)]

\* c.HTML(code, name, gin.H{"ErrorMessage": msg})
HTML(q, code, name, message) ==
  [q EXCEPT !.status = WriteHeader(q, code), !.tmpl = name, !.msg = message]

\* render: JSON, XML or HTML of the payload, status 200
render(q, payload, templateName) ==
  [q EXCEPT !.status = WriteHeader(q, StatusOK), !.tmpl = templateName,
            !.payload = payload]

\* ------------------------------------------------------------- middleware
\* setUserStatus: is_logged_in
setUserStatus(userID) == userID # 0

ensureLoggedIn_Never(loggedIn) == TRUE

\* ensureLoggedIn / ensureNotLoggedIn: TRUE iff the request is not aborted
ensureLoggedIn(loggedIn) == loggedIn
ensureNotLoggedIn(loggedIn) == ~loggedIn

LoggedInRoutes ==
  {"GET /u/logout", "GET /recording/view/:recording_id",
   "GET /recording/upload", "POST /recording/upload"}
LoggedOutRoutes ==
  {"GET /u/login", "POST /u/login", "GET /u/register", "POST /u/register",
   "GET /u/confirm/:token"}
Routes == {"GET /"} \cup LoggedInRoutes \cup LoggedOutRoutes

\* initializeRoutes: the guard registered in front of each route's handler
RouteGuard(route, loggedIn) ==
  CASE route \in LoggedInRoutes -> ensureLoggedIn(loggedIn)
    [] route \in LoggedOutRoutes -> ensureNotLoggedIn(loggedIn)
    [] OTHER -> TRUE

\* a new request of session s after sessions.Sessions and setUserStatus
Arrive(s, route) ==
  [IdleRequest EXCEPT !.route = route, !.pc = "handler",
                      !.user_id = session[s],
                      !.is_logged_in = setUserStatus(session[s])]

\* session s may send its next request
CanSend(s) == req[s].pc = "idle"

\* the guard aborted the chain: the handler does not run
Refuse(s, q) ==
  /\ Return(s, AbortWithStatus(q, StatusUnauthorized))
  /\ UNCHANGED <<users, recordings, files, session, nextToken, mail, confirmed>>

\* ------------------------------------------------------------------ store
Min(S) == CHOOSE x \in S : \A y \in S : x <= y

\* db.Where(&model.User{Email: email}).First(&user): a struct condition
\* skips zero-valued fields, so an empty email selects the first row
UserWhereEmail(email) ==
  LET ids == {i \in 1..Len(users) : email = "" \/ users[i].Email = email}
  IN  IF ids = {} THEN ZeroUser ELSE users[Min(ids)]

UserWhereToken_First(token) == IF Len(users) = 0 THEN ZeroUser ELSE users[1]

\* db.Where(&model.User{Token: token}).First(&user), token a parsed UUID
UserWhereToken(token) ==
  LET ids == {i \in 1..Len(users) : token = 0 \/ users[i].Token = token}
  IN  IF ids = {} THEN ZeroUser ELSE users[Min(ids)]

\* db.First(&user, userID)
UserFirst(userID) ==
  IF userID \in 1..Len(users) THEN users[userID] ELSE ZeroUser

\* the uniqueness constraint of users.email
UniqueEmail(email) == \A i \in 1..Len(users) : users[i].Email # email

\* findUser: nil is ZeroUser
findUser(email, password) ==
  LET user == UserWhereEmail(email)
  IN  IF CompareHashAndPassword(user.Password, password) THEN user ELSE ZeroUser

\* ----------------------------------------------------------- page handlers
\* GET /u/login, GET /u/register, GET /recording/upload: a form page
ShowPage(s, route, templateName) ==
  /\ CanSend(s)
  /\ LET q == Arrive(s, route)
     IN  IF ~RouteGuard(route, q.is_logged_in)
         THEN Refuse(s, q)
         ELSE /\ Return(s, render(q, {}, templateName))
              /\ UNCHANGED <<users, recordings, files, session, nextToken,
                             mail, confirmed>>

showLoginPage(s) == ShowPage(s, "GET /u/login", "login.html")
showRegistrationPage(s) == ShowPage(s, "GET /u/register", "register.html")
showRecordingUploadPage(s) ==
  ShowPage(s, "GET /recording/upload", "upload-recording.html")

\* ------------------------------------------------------------------ login
NeedsConfirmation == "Please check your mailbox and click the confirmation link"
InvalidCredentials == "Invalid credentials provided"

LoginEmail_AsPosted(formEmail) == formEmail

\* the e-mail under which performLogin looks the user up
LoginEmail(formEmail) == ToLower(formEmail)

\* performLogin's three branches: the user id it saves to the session (0:
\* none) and the page it answers with
LoginOutcome(formEmail, formPassword) ==
  LET email == LoginEmail(formEmail)
      user == findUser(email, formPassword)
  IN  IF user # ZeroUser
      THEN IF user.Status > 0
           THEN [user_id |-> user.ID, status |-> StatusOK,
                 tmpl |-> "login-successful.html", msg |-> ""]
           ELSE [user_id |-> 0, status |-> StatusBadRequest,
                 tmpl |-> "login.html", msg |-> NeedsConfirmation]
      ELSE [user_id |-> 0, status |-> StatusBadRequest,
            tmpl |-> "login.html", msg |-> InvalidCredentials]

\* POST /u/login
performLogin(s, formEmail, formPassword) ==
  /\ CanSend(s)
  /\ LET q == [Arrive(s, "POST /u/login") EXCEPT !.email = formEmail,
                                                  !.password = formPassword]
         out == LoginOutcome(formEmail, formPassword)
     IN  IF ~RouteGuard(q.route, q.is_logged_in)
         THEN Refuse(s, q)
         ELSE /\ IF out.user_id # 0
                 THEN /\ session' = [session EXCEPT ![s] = out.user_id]
                      /\ Return(s, render([q EXCEPT !.is_logged_in = TRUE],
                                         {}, out.tmpl))
                 ELSE /\ session' = session
                      /\ Return(s, HTML(q, out.status, out.tmpl, out.msg))
              /\ UNCHANGED <<users, recordings, files, nextToken, mail,
                             confirmed>>

SessionDelete_Nothing(s) == session

\* logout: session.Delete("user_id") and session.Save()
SessionDelete(s) == [session EXCEPT ![s] = 0]

\* GET /u/logout
logout(s) ==
  /\ CanSend(s)
  /\ LET q == Arrive(s, "GET /u/logout")
     IN  IF ~RouteGuard(q.route, q.is_logged_in)
         THEN Refuse(s, q)
         ELSE /\ session' = SessionDelete(s)
              /\ Return(s, [q EXCEPT !.status = StatusTemporaryRedirect])
              /\ UNCHANGED <<users, recordings, files, nextToken, mail,
                             confirmed>>

\* ----------------------------------------------------------- registration
CouldNotHash == "Could not hash password"
CouldNotCreate == "Could not create user"
CouldNotSend == "Could not send confirmation link"

RegisterEmail_AsPosted(formEmail) == formEmail

\* the e-mail under which register stores the user
RegisterEmail(formEmail) == ToLower(formEmail)

\* register's error branch
RegistrationFailed(s, q, message) ==
  Return(s, HTML(q, StatusBadRequest, "register.html", message))

\* POST /u/register up to db.Create(&user) in registerNewUser.
\* fault "hash": hashPassword returns an error; "store": db.Create does
register(s, formEmail, formPassword, fault) ==
  /\ CanSend(s)
  /\ LET q == [Arrive(s, "POST /u/register") EXCEPT !.email = formEmail,
                                                     !.password = formPassword]
         email == RegisterEmail(formEmail)
         id == Len(users) + 1
         user == [ID |-> id, Email |-> email,
                  Password |-> hashPassword(formPassword),
                  Token |-> 0, Status |-> 0]
     IN  IF ~RouteGuard(q.route, q.is_logged_in)
         THEN Refuse(s, q)
         ELSE /\ IF fault = "hash"
                 THEN /\ RegistrationFailed(s, q, CouldNotHash)
                      /\ users' = users
                 ELSE IF fault # "store" /\ UniqueEmail(email) /\ Len(users) < MaxUsers
                 THEN /\ users' = Append(users, user)
                      /\ Continue(s, [q EXCEPT !.pc = "sendConfirmation", !.user = user])
                 ELSE /\ RegistrationFailed(s, q, CouldNotCreate)
                      /\ users' = users
              /\ UNCHANGED <<recordings, files, session, nextToken, mail,
                             confirmed>>

\* sendConfirmation up to db.First(&user, userID).
\* fault "uuid": uuid.NewRandom returns an error
sendConfirmationFirst(s, fault) ==
  /\ req[s].pc = "sendConfirmation"
  /\ LET q == req[s]
     IN  IF fault = "uuid"
         THEN /\ RegistrationFailed(s, q, CouldNotSend)
              /\ nextToken' = nextToken
         ELSE /\ Continue(s, [q EXCEPT !.pc = "sendConfirmation.Save",
                             !.token = nextToken,
                             !.user = UserFirst(q.user.ID)])
              /\ nextToken' = nextToken + 1
  /\ UNCHANGED <<users, recordings, files, session, mail, confirmed>>

SaveUser_Nothing(user) == users

\* db.Save(&user) of a row read before: every column is written
SaveUser(user) == [users EXCEPT ![user.ID] = user]

\* sendConfirmation from db.Save(&user) on, and the rest of register.
\* fault "store": db.Save returns an error; "mail": helper.SendEmail does
sendConfirmationSave(s, fault) ==
  /\ req[s].pc = "sendConfirmation.Save"
  /\ LET q == req[s]
         user == [q.user EXCEPT !.Token = q.token]
     IN  IF fault = "store"
         THEN /\ RegistrationFailed(s, q, CouldNotSend)
              /\ UNCHANGED <<users, mail>>
         ELSE /\ users' = SaveUser(user)
              /\ IF fault # "mail"
                 THEN /\ mail' = mail \cup {<<user.Email, q.token>>}
                      /\ Return(s, render(q, {}, "register-successful.html"))
                 ELSE /\ mail' = mail
                      /\ RegistrationFailed(s, q, CouldNotSend)
  /\ UNCHANGED <<recordings, files, session, nextToken, confirmed>>

\* ----------------------------------------------------------- confirmation
InvalidLink == "Invalid confirmation link"

\* GET /u/confirm/:token up to db.Where(&model.User{Token: token}).First
performConfirmation(s, token) ==
  /\ CanSend(s)
  /\ LET q == [Arrive(s, "GET /u/confirm/:token") EXCEPT !.param = token]
         user == UserWhereToken(token)
     IN  IF ~RouteGuard(q.route, q.is_logged_in)
         THEN Refuse(s, q)
         ELSE /\ IF ~uuidParse(token)
                 THEN Return(s, AbortWithStatus(q, StatusBadRequest))
                 ELSE IF user.Email = ""
                 THEN Return(s, [AbortWithStatus(q, StatusBadRequest)
                                  EXCEPT !.msg = InvalidLink])
                 ELSE Continue(s, [q EXCEPT !.pc = "performConfirmation.Save",
                                  !.user = user])
              /\ UNCHANGED <<users, recordings, files, session, nextToken,
                             mail, confirmed>>

ConfirmedUser_TokenKept(user) == [user EXCEPT !.Status = 1]

\* the row performConfirmation writes back
ConfirmedUser(user) == [user EXCEPT !.Token = 0, !.Status = 1]

\* performConfirmation from db.Save(&user) on.
\* fault "store": db.Save returns an error
performConfirmationSave(s, fault) ==
  /\ req[s].pc = "performConfirmation.Save"
  /\ LET q == req[s]
     IN  IF fault = "store"
         THEN /\ Return(s, AbortWithStatus(q, StatusBadRequest))
              /\ UNCHANGED <<users, confirmed>>
         ELSE /\ users' = SaveUser(ConfirmedUser(q.user))
              /\ confirmed' = confirmed \cup {q.param}
              /\ Return(s, render(q, {}, "confirmation.html"))
  /\ UNCHANGED <<recordings, files, session, nextToken, mail>>

\* -------------------------------------------------------------- recordings
Languages == {"en"}

\* db.First(&recording, id)
RecordingFirst(id) ==
  IF id \in 1..Len(recordings) THEN recordings[id] ELSE ZeroRecording

getAllRecordingsByUserID_Nothing(userID) == {}

\* getAllRecordingsByUserID:
\* db.Where(&model.Recording{UserID: userID}).Not("status = 0").Find
getAllRecordingsByUserID(userID) ==
  {recordings[i] : i \in {j \in 1..Len(recordings) :
       /\ userID = 0 \/ recordings[j].UserID = userID
       /\ recordings[j].Status # 0}}

\* getRecordingByID: err == nil
RecordingFound(recording) == recording.Title # ""

OwnedBy_Anyone(recording, userID) == TRUE

\* getRecording: the recording is owned by the current user
OwnedBy(recording, userID) == userID = recording.UserID

\* db.Save(&recording): an update of the row with this primary key, an
\* insert under a new primary key when the primary key is zero
SaveRecording(recording) ==
  IF recording.ID = 0
  THEN Append(recordings, [recording EXCEPT !.ID = Len(recordings) + 1])
  ELSE [recordings EXCEPT ![recording.ID] = recording]

\* the store has room for one more row of recordings
RecordingsRoom == Len(recordings) < MaxRecordings

\* GET /
showIndexPage(s) ==
  /\ CanSend(s)
  /\ LET q == Arrive(s, "GET /")
     IN  IF q.user_id # 0
           THEN Return(s, render(q, getAllRecordingsByUserID(q.user_id), "index.html"))
           ELSE Return(s, render(q, {}, "login.html"))
  /\ UNCHANGED <<users, recordings, files, session, nextToken, mail, confirmed>>

\* getRecording's body: the response to GET /recording/view/<recordingID>
\* for a request q that passed the guard
getRecordingResponse(q, recordingID) ==
  LET recording == RecordingFirst(recordingID)
  IN  IF recordingID > 0 /\ RecordingFound(recording)
      THEN IF OwnedBy(recording, q.user_id)
           THEN render(q, {recording}, "recording.html")
           ELSE AbortWithStatus(q, StatusUnauthorized)
      ELSE AbortWithStatus(q, StatusNotFound)

\* GET /recording/view/:recording_id
getRecording(s, recordingID) ==
  /\ CanSend(s)
  /\ LET q == [Arrive(s, "GET /recording/view/:recording_id")
                 EXCEPT !.param = recordingID]
     IN  IF ~RouteGuard(q.route, q.is_logged_in)
         THEN Refuse(s, q)
         ELSE /\ Return(s, getRecordingResponse(q, recordingID))
              /\ UNCHANGED <<users, recordings, files, session, nextToken,
                             mail, confirmed>>

UploadTitle_AsPosted(title, filename) == title

\* the title uploadRecording stores
UploadTitle(title, filename) == IF title = "" THEN filename ELSE title

\* what uploadRecording does after c.AbortWithError(...): it has no return
\* there, so the handler goes on with its next statement
AfterAbort(q, next) == [q EXCEPT !.pc = next]

\* POST /recording/upload up to createRecording.
\* fault "file": the form has no file "content"; "store": db.Create returns
\* an error
uploadRecording(s, title, original, language, fault) ==
  /\ CanSend(s)
  /\ LET q == Arrive(s, "POST /recording/upload")
         filename == Base(original)
         r == [ID |-> 0, UserID |-> q.user_id,
               Title |-> UploadTitle(title, filename), Filename |-> filename,
               Language |-> language, Status |-> 0]
         row == [r EXCEPT !.ID = Len(recordings) + 1]
     IN  IF ~RouteGuard(q.route, q.is_logged_in)
         THEN Refuse(s, q)
         ELSE /\ IF fault = "file"
                 \* file is nil: file.Filename panics, gin's Recovery ends
                 \* the request
                 THEN /\ Return(s, AbortWithStatus(q, StatusBadRequest))
                      /\ recordings' = recordings
                 ELSE IF fault # "store" /\ RecordingsRoom
                 THEN /\ recordings' = Append(recordings, row)
                      /\ Continue(s, [q EXCEPT !.pc = "SaveUploadedFile", !.r = row])
                 ELSE /\ recordings' = recordings
                      /\ Continue(s, AfterAbort([AbortWithStatus(q, StatusBadRequest)
                                         EXCEPT !.r = r], "SaveUploadedFile"))
              /\ UNCHANGED <<users, files, session, nextToken, mail, confirmed>>

\* c.SaveUploadedFile(file, helper.RecordingFilename(r.ID)).
\* fault "disk": the file is not written
SaveUploadedFile(s, fault) ==
  /\ req[s].pc = "SaveUploadedFile"
  /\ LET q == req[s]
     IN  IF fault # "disk"
         THEN /\ files' = files \cup {q.r.ID}
              /\ Continue(s, [q EXCEPT !.pc = "updateRecordingStatus"])
         ELSE /\ files' = files
              /\ Continue(s, AfterAbort(AbortWithStatus(q, StatusBadRequest),
                              "updateRecordingStatus"))
  /\ UNCHANGED <<users, recordings, session, nextToken, mail, confirmed>>

\* updateRecordingStatus up to db.First(&recording, r.ID)
updateRecordingStatusFirst(s) ==
  /\ req[s].pc = "updateRecordingStatus"
  /\ Continue(s, [req[s] EXCEPT !.pc = "updateRecordingStatus.Save",
                 !.recording = RecordingFirst(req[s].r.ID)])
  /\ UNCHANGED <<users, recordings, files, session, nextToken, mail, confirmed>>

\* updateRecordingStatus from db.Save(&recording) on, and the rest of
\* uploadRecording.  fault "store": db.Save returns an error
updateRecordingStatusSave(s, fault) ==
  /\ req[s].pc = "updateRecordingStatus.Save"
  /\ LET q == req[s]
         recording == [q.recording EXCEPT !.Status = 1]
     IN  IF fault # "store" /\ (recording.ID # 0 \/ RecordingsRoom)
         THEN /\ recordings' = SaveRecording(recording)
              /\ Return(s, render(q, {q.r}, "submission-successful.html"))
         ELSE /\ recordings' = recordings
              /\ Return(s, AbortWithStatus(q, StatusBadRequest))
  /\ UNCHANGED <<users, files, session, nextToken, mail, confirmed>>

\* ------------------------------------------------------------------- spec
\* what may fail in a request: nothing (""), hashPassword, uuid.NewRandom,
\* a store write, helper.SendEmail, the form's file, the disk
Faults == {"", "hash", "uuid", "store", "mail", "file", "disk"}

\* the requests of sessions S with form values from E, P, R, T and F, where
\* the environment fails as FS allows
Pages(S) ==
  \E s \in S :
    \/ showLoginPage(s)
    \/ showRegistrationPage(s)
    \/ showRecordingUploadPage(s)

Sessioning(S, E, P) ==
  \E s \in S :
    \/ \E e \in E, p \in P : performLogin(s, e, p)
    \/ logout(s)

Accounts(S, R, FS) ==
  \E s \in S :
    \/ \E f \in R, fault \in FS \cap {"", "hash", "store"} :
         register(s, f[1], f[2], fault)
    \/ \E fault \in FS \cap {"", "uuid"} : sendConfirmationFirst(s, fault)
    \/ \E fault \in FS \cap {"", "store", "mail"} : sendConfirmationSave(s, fault)
    \/ \E t \in TokenParams : performConfirmation(s, t)
    \/ \E fault \in FS \cap {"", "store"} : performConfirmationSave(s, fault)

Recordings(S, T, F, FS) ==
  \E s \in S :
    \/ showIndexPage(s)
    \/ \E id \in RecordingParams : getRecording(s, id)
    \/ \E t \in T, f \in F, l \in Languages,
          fault \in FS \cap {"", "file", "store"} :
         uploadRecording(s, t, f, l, fault)
    \/ \E fault \in FS \cap {"", "disk"} : SaveUploadedFile(s, fault)
    \/ updateRecordingStatusFirst(s)
    \/ \E fault \in FS \cap {"", "store"} : updateRecordingStatusSave(s, fault)

\* every request, every input, every failure
Next ==
  \/ Pages(Sessions)
  \/ Sessioning(Sessions, Emails \cup {"b@x"}, Passwords)
  \/ Accounts(Sessions, Registrations, Faults)
  \/ Recordings(Sessions, Titles, FileNames, Faults)

Spec == Init /\ [][Next]_vars

\* accounts and sessions: registration, confirmation, login and logout of
\* concurrent sessions on an empty store
NextAccounts ==
  \/ Sessioning(Sessions, Emails, Passwords)
  \/ Accounts(Sessions, AccountForms, Faults)

SpecAccounts == Init /\ [][NextAccounts]_vars

\* recordings: the server starts on a store that holds two confirmed users
InitRecordings ==
  /\ users = <<[ID |-> 1, Email |-> "a@x", Password |-> hashPassword("p"),
                Token |-> 0, Status |-> 1],
               [ID |-> 2, Email |-> "b@x", Password |-> hashPassword("q"),
                Token |-> 0, Status |-> 1]>>
  /\ recordings = <<>>
  /\ files = {}
  /\ session = [s \in Sessions |-> 0]
  /\ req = [s \in Sessions |-> IdleRequest]
  /\ nextToken = 3
  /\ mail = {<<"a@x", 1>>, <<"b@x", 2>>}
  /\ confirmed = {1, 2}
  /\ response = Response(0, IdleRequest)

NextRecordings ==
  \/ Sessioning(Sessions, {"a@x", "b@x"}, Passwords)
  \/ Recordings(Sessions, {""}, FileNames, Faults)

SpecRecordings == InitRecordings /\ [][NextRecordings]_vars

\* uploads: one account in two browsers, every title and file name, no
\* failure of the environment; a request that has entered its handler runs
\* to the end of it
NextUploads ==
  \/ Sessioning(Sessions, {"a@x"}, {"p"})
  \/ Recordings(Sessions, Titles, UploadNames, {""})

HandlerRuns(s) ==
  \/ SaveUploadedFile(s, "")
  \/ updateRecordingStatusFirst(s)
  \/ updateRecordingStatusSave(s, "")

SpecUploads ==
  /\ InitRecordings
  /\ [][NextUploads]_vars
  /\ \A s \in Sessions : WF_vars(HandlerRuns(s))

\* routes: every route of initializeRoutes, for one account and without
\* failures of the environment
NextRoutes ==
  \/ Pages(Sessions)
  \/ Sessioning(Sessions, {"a@x"}, {"p"})
  \/ Accounts(Sessions, {<<"a@x", "p">>}, {""})
  \/ Recordings(Sessions, {"t"}, FileNames, {""})

SpecRoutes == Init /\ [][NextRoutes]_vars

\* ----------------------------------------------------------------- claims
\* session s sends a request in this step: it is answered at once, or it
\* stands before a store access afterwards
Sends(s) ==
  /\ CanSend(s)
  /\ \/ req'[s].pc # "idle"
     \/ response' # response /\ response'.session = s

\* a request of session s is answered in this step
Answered(s) == response' # response /\ response'.session = s

\* the route, and the path parameter, of the request session s sends
SentRoute(s) == IF req'[s].pc # "idle" THEN req'[s].route ELSE response'.route
SentParam(s) == IF req'[s].pc # "idle" THEN req'[s].param ELSE response'.param
SentEmail(s) == IF req'[s].pc # "idle" THEN req'[s].email ELSE response'.email

\* user i is registered under the posted e-mail, in some letter case
HasEmail(i, formEmail) == users[i].Email = ToLower(formEmail)

\* C1: a logged-out session that posts the e-mail and the password of a
\* user whose status is 0 to /u/login gets no session and the "check your
\* mailbox" answer, not "Invalid credentials provided"
C1_UnconfirmedLogin ==
  [][\A s \in Sessions :
       ( /\ CanSend(s) /\ Answered(s) /\ session[s] = 0
         /\ response'.route = "POST /u/login"
         /\ \E i \in 1..Len(users) :
              /\ users[i].Status = 0
              /\ HasEmail(i, response'.email)
              /\ CompareHashAndPassword(users[i].Password, response'.password) )
       => /\ session'[s] = 0
          /\ response'.msg = NeedsConfirmation]_vars

\* C2: a logged-in session that requests /recording/view/<id> of an existing
\* recording of user A gets 401 and no recording unless it is A's session,
\* and gets the recording if it is
C2_ViewOwnedOnly ==
  [][\A s \in Sessions :
       ( /\ CanSend(s) /\ Answered(s) /\ session[s] # 0
         /\ response'.route = "GET /recording/view/:recording_id"
         /\ response'.param \in 1..Len(recordings)
         /\ recordings[response'.param].UserID \in 1..Len(users) )
       => IF recordings[response'.param].UserID = session[s]
          THEN /\ response'.status = StatusOK
               /\ response'.payload = {recordings[response'.param]}
          ELSE /\ response'.status = StatusUnauthorized
               /\ response'.payload = {}]_vars

\* another user's recording was requested and refused
C2_Witness ==
  /\ response.route = "GET /recording/view/:recording_id"
  /\ response.status = StatusUnauthorized
  /\ response.user_id # 0
  /\ response.param \in 1..Len(recordings)
  /\ recordings[response.param].UserID \in 1..Len(users)
  /\ recordings[response.param].UserID # response.user_id

\* C3: the recordings in an answer to GET / or /recording/view/<id> are the
\* requester's own and none of them is pending (status 0)
C3_ShownOwnAndComplete ==
  response.route \in {"GET /", "GET /recording/view/:recording_id"}
    => \A recording \in response.payload :
         /\ recording.UserID = response.user_id
         /\ recording.Status # 0

\* C4: a recording with status 1 has its file on disk
C4_CompleteHasFile ==
  \A id \in 1..Len(recordings) : recordings[id].Status = 1 => id \in files

\* C5: once a confirmation request with a token has succeeded, a
\* confirmation request with that token fails at once with the "no user has
\* this token" error (Invalid confirmation link, sent as 400) and writes no
\* user
C5_ConfirmSingleUse ==
  [][\A s \in Sessions :
       ( /\ Sends(s) /\ session[s] = 0
         /\ SentRoute(s) = "GET /u/confirm/:token"
         /\ SentParam(s) \in confirmed )
       => /\ Answered(s)
          /\ req'[s].pc = "idle"
          /\ response'.status = StatusBadRequest
          /\ response'.msg = InvalidLink
          /\ users' = users]_vars

\* a token that has confirmed its user was sent again and refused
C5_Witness ==
  /\ response.route = "GET /u/confirm/:token"
  /\ response.param \in confirmed
  /\ response.msg = InvalidLink
  /\ \E i \in 1..Len(users) : users[i].Status = 1

\* the request session s sends is on the wrong side of its route's guard
Misplaced(s) ==
  \/ SentRoute(s) \in LoggedInRoutes /\ session[s] = 0
  \/ SentRoute(s) \in LoggedOutRoutes /\ session[s] # 0

\* C6: a request without a session user id to a route for logged-in users,
\* and a request with one to a route for logged-out users, is answered 401
\* at once and nothing of its handler runs: no page, no payload, no change
\* of the store, the disk, the session or the mail
C6_RouteGuards ==
  [][\A s \in Sessions :
       (Sends(s) /\ Misplaced(s))
       => /\ Answered(s)
          /\ req'[s].pc = "idle"
          /\ response'.status = StatusUnauthorized
          /\ response'.tmpl = "" /\ response'.payload = {}
          /\ UNCHANGED <<users, recordings, files, session, nextToken, mail,
                         confirmed>>]_vars

\* a logged-in session was refused on a route for logged-out users, after
\* an upload has passed the guard of its route
C6_Witness ==
  /\ response.route \in LoggedOutRoutes
  /\ response.user_id # 0
  /\ response.status = StatusUnauthorized
  /\ Len(recordings) > 0

\* C7: a logout that passes the guard leaves the session without user id;
\* a session without user id is refused with 401 on every route for
\* logged-in users; and a session gets a user id only by a login of its own
\* that succeeds
C7_LogoutInvalidates ==
  [][\A s \in Sessions :
       /\ ( /\ CanSend(s) /\ Answered(s) /\ session[s] # 0
            /\ response'.route = "GET /u/logout" )
          => session'[s] = 0
       /\ ( /\ Sends(s) /\ session[s] = 0
            /\ SentRoute(s) \in LoggedInRoutes )
          => /\ Answered(s)
             /\ response'.status = StatusUnauthorized
             /\ session'[s] = 0
       /\ (session[s] = 0 /\ session'[s] # 0)
          => /\ CanSend(s) /\ Answered(s)
             /\ response'.route = "POST /u/login"
             /\ response'.status = StatusOK]_vars

\* a session that was logged in has logged out
C7_Witness ==
  /\ response.route = "GET /u/logout"
  /\ response.status = StatusTemporaryRedirect
  /\ response.user_id # 0
  /\ session[response.session] = 0

\* C8: a logged-out session that posts the e-mail of a confirmed user, in
\* any letter case, to /u/login gets a session with exactly that user's id
\* if the password is the user's, and no session if it is not
C8_ConfirmedLogin ==
  [][\A s \in Sessions :
       ( /\ CanSend(s) /\ Answered(s) /\ session[s] = 0
         /\ response'.route = "POST /u/login" )
       => \A i \in 1..Len(users) :
            (users[i].Status = 1 /\ HasEmail(i, response'.email))
            => IF CompareHashAndPassword(users[i].Password, response'.password)
               THEN session'[s] = i /\ response'.status = StatusOK
               ELSE session'[s] = 0 /\ response'.status = StatusBadRequest]_vars

\* the second user has logged in with the e-mail in another letter case than
\* the stored one
C8_Witness ==
  /\ response.route = "POST /u/login"
  /\ response.status = StatusOK
  /\ response.email = "A@x"
  /\ session[response.session] = 2
  /\ users[2].Email = "a@x"

\* C9: once a step of POST /recording/upload has failed, the request does
\* nothing more: it creates no row, saves no file, updates no status and
\* renders no page
C9_AbortEndsUpload ==
  [][\A s \in Sessions :
       ( /\ req[s].route = "POST /recording/upload"
         /\ req[s].aborted
         /\ req'[s] # req[s] )
       => /\ recordings' = recordings
          /\ files' = files
          /\ response'.tmpl = ""]_vars

\* no two users have the same e-mail up to letter case
UniqueEmails ==
  \A i, j \in 1..Len(users) :
    ToLower(users[i].Email) = ToLower(users[j].Email) => i = j

\* C10: a registration under the e-mail of an existing user, in any letter
\* case, is answered 400 at once, creates no user, sends no message and
\* changes no user; and no two users have the same e-mail up to letter case
C10_DuplicateEmail ==
  /\ []UniqueEmails
  /\ [][\A s \in Sessions :
          ( /\ Sends(s) /\ session[s] = 0
            /\ SentRoute(s) = "POST /u/register"
            /\ \E i \in 1..Len(users) : HasEmail(i, SentEmail(s)) )
          => /\ Answered(s)
             /\ req'[s].pc = "idle"
             /\ response'.status = StatusBadRequest
             /\ response'.msg \in {CouldNotCreate, CouldNotHash}
             /\ users' = users
             /\ mail' = mail]_vars

\* the address of a user was registered again in another letter case and
\* with another password, and was refused
C10_Witness ==
  /\ response.route = "POST /u/register"
  /\ response.email = "A@x" /\ response.password = "q"
  /\ response.msg = CouldNotCreate
  /\ \E i \in 1..Len(users) :
       users[i].Email = "a@x" /\ users[i].Password = hashPassword("p")

\* C11: when helper.SendEmail fails in a registration, the request is
\* answered 400 "Could not send confirmation link" and nothing is rolled
\* back: no row is removed, the new user's row has status 0 and the token
\* of the undelivered link, no session is established and no message is
\* recorded as dispatched
C11_DeliveryFailureKeepsUser ==
  [][\A s \in Sessions :
       sendConfirmationSave(s, "mail")
       => LET id == req[s].user.ID
          IN  /\ Answered(s)
              /\ response'.route = "POST /u/register"
              /\ response'.status = StatusBadRequest
              /\ response'.msg = CouldNotSend
              /\ Len(users') = Len(users)
              /\ id \in 1..Len(users')
              /\ users'[id].Email = ToLower(response'.email)
              /\ users'[id].Password = hashPassword(response'.password)
              /\ users'[id].Status = 0
              /\ users'[id].Token = req[s].token
              /\ uuidParse(users'[id].Token)
              /\ \A i \in 1..Len(users) : i # id => users'[i] = users[i]
              /\ session' = session
              /\ mail' = mail]_vars

\* a registration has failed at the dispatch: its user is stored with
\* status 0 and a token that no message carries
C11_Witness ==
  /\ response.route = "POST /u/register"
  /\ response.msg = CouldNotSend
  /\ \E i \in 1..Len(users) :
       /\ users[i].Email = ToLower(response.email)
       /\ users[i].Status = 0
       /\ uuidParse(users[i].Token)
       /\ \A m \in mail : m[2] # users[i].Token

\* C12: a logged-out session that posts to /u/login an e-mail and a password
\* that is not the password of a user with that e-mail gets the same answer
\* whatever the store holds for that e-mail (no user, an unconfirmed one, a
\* confirmed one): no session and "Invalid credentials provided"
C12_LoginLeaksNothing ==
  [][\A s \in Sessions :
       ( /\ CanSend(s) /\ Answered(s) /\ session[s] = 0
         /\ response'.route = "POST /u/login"
         /\ \A i \in 1..Len(users) :
              HasEmail(i, response'.email)
              => ~CompareHashAndPassword(users[i].Password, response'.password) )
       => /\ session'[s] = 0
          /\ response'.status = StatusBadRequest
          /\ response'.tmpl = "login.html"
          /\ response'.msg = InvalidCredentials]_vars

\* the last element of path f that is a name
RECURSIVE LastName(_)
LastName(f) ==
  IF f[Len(f)] # "" THEN f[Len(f)] ELSE LastName(SubSeq(f, 1, Len(f) - 1))

\* C13: an upload that creates its row stores, for an empty title, the last
\* name of the original file name without any of its directories, and for
\* any other title that title; the stored file name is that last name too
C13_UploadTitle ==
  [][\A s \in Sessions, t \in Titles, f \in UploadNames :
       ( /\ uploadRecording(s, t, f, "en", "")
         /\ Len(recordings') > Len(recordings) )
       => LET row == recordings'[Len(recordings')]
          IN  /\ Len(recordings') = Len(recordings) + 1
              /\ row.UserID = session[s]
              /\ row.Filename = LastName(f)
              /\ row.Title = IF t = "" THEN LastName(f) ELSE t]_vars

\* an upload without title of a file named by a path that climbs out of its
\* directory is stored under the file's own name
C13_Witness ==
  \E id \in 1..Len(recordings) :
    /\ recordings[id].Title = "evil.wav"
    /\ recordings[id].Filename = "evil.wav"
    /\ recordings[id].UserID # 0

\* the row with primary key id is stored
Stored(id) == id \in 1..Len(recordings)

\* C14: where nothing fails, an upload of a logged-in user creates exactly
\* one row, owned by that user, and that row gets status 1 and its file;
\* a row is never removed, never changes its owner and never leaves status
\* 1; and every answer to GET / of a user lists that user's rows of status 1
C14_UploadCompletes ==
  /\ [][\A s \in Sessions :
          /\ ( /\ CanSend(s) /\ req'[s].pc = "SaveUploadedFile"
               /\ ~req'[s].aborted )
             => /\ Len(recordings') = Len(recordings) + 1
                /\ req'[s].r = recordings'[Len(recordings')]
                /\ req'[s].r.UserID = session[s]
                /\ session[s] # 0
          /\ ~CanSend(s) /\ req'[s] # req[s]
             => Len(recordings') = Len(recordings)
          /\ ( /\ CanSend(s) /\ Answered(s) /\ session[s] # 0
               /\ response'.route = "GET /" )
             => \A id \in 1..Len(recordings) :
                  ( /\ recordings[id].UserID = session[s]
                    /\ recordings[id].Status = 1 )
                  => recordings[id] \in response'.payload]_vars
  /\ [][\A id \in 1..Len(recordings) :
          /\ Len(recordings') >= Len(recordings)
          /\ recordings'[id].UserID = recordings[id].UserID
          /\ recordings[id].Status = 1 => recordings'[id] = recordings[id]]_vars
  /\ \A id \in 1..MaxRecordings :
       Stored(id) ~> ( /\ Stored(id)
                       /\ recordings[id].Status = 1
                       /\ id \in files )

\* an upload has completed and its owner's list shows the recording
C14_Witness ==
  /\ response.route = "GET /"
  /\ response.user_id # 0
  /\ \E id \in 1..Len(recordings) :
       /\ recordings[id].Status = 1
       /\ recordings[id].UserID = response.user_id
       /\ id \in files
       /\ recordings[id] \in response.payload

\* the request of session s is a confirmation that stands before its
\* db.Save and carries the token stored for user i
ConfirmsUser(s, i) ==
  /\ req[s].pc = "performConfirmation.Save"
  /\ req[s].route = "GET /u/confirm/:token"
  /\ uuidParse(req[s].param)
  /\ req[s].param = users[i].Token

\* C15: a user's row is created with status 0 and never removed; its status
\* changes only from 0 to 1 and only in the db.Save of a confirmation
\* request that carries the token stored for that user; the db.Save of
\* sendConfirmation writes back the row as it is in the store but for the
\* token; and a user with status 1 has no token
C15_UserLifecycle ==
  /\ [](\A i \in 1..Len(users) :
          /\ users[i].Status \in {0, 1}
          /\ users[i].Status = 1 => users[i].Token = 0)
  /\ [][/\ Len(users') >= Len(users)
        /\ \A i \in 1..Len(users') : i > Len(users) => users'[i].Status = 0
        /\ \A i \in 1..Len(users) :
             users'[i].Status # users[i].Status
             => /\ users[i].Status = 0 /\ users'[i].Status = 1
                /\ \E s \in Sessions :
                     /\ ConfirmsUser(s, i)
                     /\ Answered(s)
                     /\ response'.tmpl = "confirmation.html"
        /\ \A s \in Sessions :
             (req[s].pc = "sendConfirmation.Save" /\ req'[s] # req[s])
             => /\ req[s].user.ID \in 1..Len(users)
                /\ users[req[s].user.ID] = req[s].user
                /\ req[s].user.Status = 0]_vars

\* one user is confirmed and has no token, while another one has registered
\* and not confirmed
C15_Witness ==
  /\ response.tmpl = "confirmation.html"
  /\ \E i, j \in 1..Len(users) :
       /\ users[i].Status = 1 /\ users[i].Token = 0
       /\ users[j].Status = 0 /\ uuidParse(users[j].Token)

\* C16: of the confirmation requests that carry one token, also of those
\* handled at the same time, at most one is answered with the confirmation
\* page: no request succeeds with a token that has succeeded before
C16_OneConfirmationSucceeds ==
  [][\A s \in Sessions :
       ( /\ Answered(s)
         /\ response'.route = "GET /u/confirm/:token"
         /\ response'.status = StatusOK
         /\ response'.tmpl = "confirmation.html" )
       => response'.param \notin confirmed]_vars

\* C17: every row of recordings has a title, so getRecordingByID reports
\* "Recording not found" for an id exactly if no row has that id
C17_NotFoundIffNoRow ==
  /\ \A id \in 1..Len(recordings) : recordings[id].Title # ""
  /\ \A id \in RecordingParams :
       ~RecordingFound(RecordingFirst(id)) <=> id \notin 1..Len(recordings)
====
